---- MODULE Spec2Model ----
(***************************************************************************)
(* Model of the relay server (src/unnamed/part_000): the three pollers,    *)
(* the task status cache, the broadcast to the WebSocket clients and the   *)
(* control surface.                                                        *)
(*                                                                         *)
(* Node runs the server on one thread: the code between two `await`s is    *)
(* one atomic step.  Each action below is one such step.  A function      *)
(* suspended on a fetch resumes with the answer of the remote: remote[t]   *)
(* is the status the answer that is delivered next carries for task t.     *)
(* RemoteChange is unconstrained, so the answer a cycle resumes with may   *)
(* be older or newer than the one another cycle resumed with before.       *)
(*                                                                         *)
(* fetched, bcast and sent are outputs of a step: the outcome of the fetch *)
(* the step resumed with ("none" when it resumed with no fetch), the       *)
(* message the step handed to the broadcast loop (NoMsg when it broadcast  *)
(* nothing) and what ws.send gave each connection during the step.         *)
(***************************************************************************)
EXTENDS Integers, Sequences, FiniteSets, TLC

\* ---------------------------------------------------------------- bounds
NumConns == 2
\* Poller invocations in flight at once, over both status pollers.
MaxInflight == 2
\* pollNewTasks invocations in flight at once.
MaxNewInflight == 2
\* /api/browser-state requests.
MaxQueries == 2

Conns == 1..NumConns
\* The pollers read the connections through clientCount() === 0 alone: one
\* connection gives both outcomes.
PollConns == {1}
AllSlots == 1..MaxInflight
WatchedSlots == 1..MaxInflight
NewSlots == 1..MaxNewInflight
Queries == 1..MaxQueries

\* The tasks of the remote task source that the model follows: X is assigned
\* to one of our agents, Y belongs to somebody else.
Tasks == {"X", "Y"}
\* The order in which the remote lists tasks in a listing.
ListingOrder == <<"X", "Y">>
\* The statuses the remote takes in the model.
RemoteStatuses == {"bidding", "assigned", "completed"}
\* The open tasks the model follows, in the order of a listing.
OpenTasks == {"A", "B"}
OpenListingOrder == <<"A", "B">>
\* The messages a client sends, by the `type` of their JSON.
MessageTypes == {"state_response", "other", "unparsable"}
\* The bodies a push-task request carries: a list of tasks, or one task.
PushBodies == {[tasks |-> <<"A">>], [tasks |-> <<"A", "B">>], [tasks |-> <<>>], [id |-> "B"]}
\* The `status` values a watch-task request carries ("" : no status field).
WatchStatusInputs == {"", "bidding"}

\* The transaction ids a payment-tx request carries.
TxIds == {"tx1", "tx2"}

\* The values a field of a task snapshot takes in the specification that
\* varies the snapshots: a remote agent id of ours, a local wallet address,
\* the address of somebody else, and no value.
FieldValues == {"agent1", "SP_W1", "ST_OTHER", ""}
Snapshots == [assignedAgent : FieldValues, agentId : FieldValues, posterAddress : FieldValues]

\* ------------------------------------------------------- program constants
TASKS_URLS == <<"testnet", "mainnet">>
allStatuses == <<"bidding", "assigned", "in-progress", "submitted", "completed">>
TerminalStatuses == {"completed", "cancelled", "rejected", "expired"}
OPEN == 1
CONNECTING == OPEN - 1
CLOSING == OPEN + 1
CLOSED == OPEN + 2

\* Map.get of a missing key.
Absent == "undefined"
\* paymentTxIds.get(taskId) of a key that has no entry.
NoTx == "undefined"
\* A request field that is missing (or falsy) in the JSON body.
Missing == ""

agentWallets == {"ST_W1", "SP_W1"}
\* The remote agent directory (GET /agents).
AgentDirectory ==
  { [id |-> "agent1", walletAddress |-> "ST_W1"],
    [id |-> "agent9", walletAddress |-> "ST_OTHER"] }
\* The fields of a task snapshot that isOurTask reads, for the two tasks of
\* the specifications that do not vary them.
TaskFields ==
  [ X |-> [assignedAgent |-> "agent1", agentId |-> "", posterAddress |-> "ST_OTHER"],
    Y |-> [assignedAgent |-> "agent9", agentId |-> "", posterAddress |-> "ST_OTHER"] ]

VARIABLES
  rs,               \* readyState of each connection (CONNECTING: not yet accepted)
  fetched,          \* the fetch the last step resumed with: "ok", "failed" or "none"
  bcast,            \* the message broadcast by the last step, or NoMsg
  sent,             \* what ws.send gave each connection in the last step
  phase,            \* position of the server.listen callback
  agentServerIds,
  remote,           \* the remote task source: status of each task
  taskStatusCache,  \* taskId -> last known status, Absent when no entry
  cacheOrder,       \* the keys of taskStatusCache in insertion order
  allCyc,           \* the in-flight pollAllAgentTasks invocations
  wCyc,             \* the in-flight pollWatchedTasks invocations
  lastSent,         \* history: status of each task in the last task_updates carrying it
                    \* ("off": the specification does not record it)
  bootClean,        \* history: no fetch failed and the remote did not change during
                    \* startup (TRUE once the interval timers run)
  openRemote,       \* the remote task source: the open tasks of each network
  firstFetch,
  seenNewIds,
  newCyc,           \* the in-flight pollNewTasks invocations
  seedable,         \* history: the tasks open, with no change, from startup to the
                    \* end of the first pollNewTasks cycle
  stateResolve,     \* _stateResolve: 0 (null) or the query whose response it answers
  qReply,           \* the HTTP reply of each /api/browser-state request
  qTimer,           \* the 5 s timer of each request: "off", "armed" or "fired"
  overwritten,      \* history: the requests whose resolver a later request replaced
  crashed,          \* an uncaught exception ended the process
  paymentTxIds,     \* taskId -> txId, NoTx when no entry
  reply,            \* the HTTP reply of the last control request
                    \* (ReplyOff: the specification does not record it)
  qTarget,          \* history: the connection each state_request was sent to
  inbound,          \* history: the connection whose message was handled last
  taskFields        \* the remote task source: the fields of each task's snapshot
                    \* that isOurTask reads

connVars == <<rs>>
outVars == <<fetched, bcast, sent>>
pollVars == <<phase, agentServerIds, remote, taskStatusCache, cacheOrder,
              allCyc, wCyc, lastSent, bootClean>>
newVars == <<openRemote, firstFetch, seenNewIds, newCyc, seedable>>
queryVars == <<stateResolve, qReply, qTimer, overwritten, crashed>>
ctlVars == <<paymentTxIds, reply>>
corrVars == <<qTarget, inbound>>
vars == <<rs, fetched, bcast, sent, phase, agentServerIds, remote, taskStatusCache,
          cacheOrder, allCyc, wCyc, lastSent, bootClean, openRemote, firstFetch,
          seenNewIds, newCyc, seedable, stateResolve, qReply, qTimer, overwritten,
          crashed, paymentTxIds, reply, qTarget, inbound, taskFields>>

\* ------------------------------------------------------------ broadcast
NoMsg == [type |-> "none", tasks |-> <<>>]

clientCountMutant == Cardinality({c \in Conns : rs[c] \in {OPEN, CLOSING}})

clientCount == Cardinality({c \in Conns : rs[c] = OPEN})

\* broadcast(msg), and the same loop inlined in the control handlers:
\* wss.clients.forEach(ws => { if (ws.readyState === 1) ws.send(str); })
SendToOpenMutant(msg) ==
  [c \in Conns |-> IF rs[c] \in {OPEN, CLOSING} THEN <<msg>> ELSE <<>>]

SendToOpen(msg) == [c \in Conns |-> IF rs[c] = OPEN THEN <<msg>> ELSE <<>>]

NothingSent == [c \in Conns |-> <<>>]

\* The task_updates history after a step that broadcasts msg.
HistoryAfter(msg) ==
  LET ids == IF msg.type = "task_updates"
             THEN {msg.tasks[i].id : i \in 1..Len(msg.tasks)} ELSE {}
      LastIdx(t) == CHOOSE i \in 1..Len(msg.tasks) :
                      /\ msg.tasks[i].id = t
                      /\ \A j \in (i+1)..Len(msg.tasks) : msg.tasks[j].id # t
  IN lastSent' = [t \in Tasks |-> IF t \in ids /\ lastSent[t] # "off"
                                  THEN msg.tasks[LastIdx(t)].status
                                  ELSE lastSent[t]]

FetchOutcome(ok) == IF ok THEN "ok" ELSE "failed"

broadcastMutant(msg) ==
  /\ bcast' = NoMsg
  /\ sent' = NothingSent
  /\ UNCHANGED lastSent

broadcast(msg) ==
  /\ bcast' = msg
  /\ sent' = SendToOpen(msg)
  /\ HistoryAfter(msg)

NoBroadcast ==
  /\ bcast' = NoMsg
  /\ sent' = NothingSent
  /\ UNCHANGED lastSent

\* ------------------------------------------------------------ connections
\* Connections are accepted in the order of their ids, so that the iteration
\* order of wss.clients is the order of the ids; an id is one socket and is
\* never reused.
ClientConnect(c) ==
  /\ UNCHANGED <<newVars, queryVars, ctlVars, corrVars, taskFields>>
  /\ fetched' = "none"
  /\ rs[c] = CONNECTING
  /\ \A d \in Conns : d < c => rs[d] # CONNECTING
  /\ rs' = [rs EXCEPT ![c] = OPEN]
  /\ NoBroadcast
  /\ UNCHANGED pollVars

ClientClosing(c) ==
  /\ UNCHANGED <<newVars, queryVars, ctlVars, corrVars, taskFields>>
  /\ fetched' = "none"
  /\ rs[c] = OPEN
  /\ rs' = [rs EXCEPT ![c] = CLOSING]
  /\ NoBroadcast
  /\ UNCHANGED pollVars

ClientClosed(c) ==
  /\ UNCHANGED <<newVars, queryVars, ctlVars, corrVars, taskFields>>
  /\ fetched' = "none"
  /\ rs[c] \in {OPEN, CLOSING}
  /\ rs' = [rs EXCEPT ![c] = CLOSED]
  /\ NoBroadcast
  /\ UNCHANGED pollVars

\* ------------------------------------------------------------ the remote
RemoteChange(t, s) ==
  /\ UNCHANGED <<newVars, queryVars, ctlVars, corrVars, taskFields>>
  /\ fetched' = "none"
  /\ remote[t] # s
  /\ remote' = [remote EXCEPT ![t] = s]
  /\ bootClean' = (phase = "running")
  /\ NoBroadcast
  /\ UNCHANGED <<rs, phase, agentServerIds, taskStatusCache, cacheOrder, allCyc, wCyc>>

\* ------------------------------------------------------------ identity
isOurTaskMutant(t) ==
  \/ taskFields[t].assignedAgent \in agentServerIds
  \/ taskFields[t].posterAddress \in agentWallets
  \/ taskFields[t].assignedAgent \in agentWallets

isOurTask(t) ==
  \/ taskFields[t].assignedAgent \in agentServerIds
  \/ taskFields[t].agentId \in agentServerIds
  \/ taskFields[t].posterAddress \in agentWallets
  \/ taskFields[t].assignedAgent \in agentWallets

\* The loop of resolveAgentServerIds over the directory.
ResolvedIds(agents) ==
  {a.id : a \in {b \in agents : b.walletAddress \in agentWallets /\ b.id # ""}}

\* ------------------------------------------------------ pollAllAgentTasks
Inflight == Cardinality({k \in AllSlots : allCyc[k].pc # "idle"})
            + Cardinality({k \in WatchedSlots : wCyc[k].pc # "idle"})

IdleAll == [pc |-> "idle", idx |-> 0, updates |-> <<>>]

\* One iteration of `for (const t of tasks)` on the snapshot of task t with
\* status s; st is the cache, its key order and the cycle's updates.
ObserveMutant(st, t, s) ==
  IF ~isOurTask(t) THEN st
  ELSE LET prev == st.cache[t] IN
    IF prev = s THEN st
    ELSE [cache |-> [st.cache EXCEPT ![t] = s],
          order |-> IF prev = Absent THEN Append(st.order, t) ELSE st.order,
          updates |-> Append(st.updates, [id |-> t, status |-> s])]

Observe(st, t, s) ==
  IF ~isOurTask(t) THEN st
  ELSE LET prev == st.cache[t] IN
    IF prev = s THEN st
    ELSE [cache |-> [st.cache EXCEPT ![t] = s],
          order |-> IF prev = Absent THEN Append(st.order, t) ELSE st.order,
          updates |-> IF prev # Absent
                      THEN Append(st.updates, [id |-> t, status |-> s])
                      ELSE st.updates]

RECURSIVE ObserveAll(_, _, _)
ObserveAll(st, listed, s) ==
  IF listed = <<>> THEN st
  ELSE ObserveAll(Observe(st, Head(listed), s), Tail(listed), s)

\* The answer of GET /tasks?status=s: the tasks in that status.
Listing(s) == SelectSeq(ListingOrder, LAMBDA t : remote[t] = s)

AllStartGuardMutant == agentServerIds # {}

\* pollAllAgentTasks up to its first await, run in slot k.
AllStartGuard == agentServerIds # {} /\ clientCount # 0

AllStarted == [pc |-> "wait", idx |-> 1, updates |-> <<>>]

\* The cycle of slot k resumes with the answer of the remote (ok), or with a
\* failed fetch, a non-OK answer or an unparsable body (~ok): the body of one
\* iteration of `for (const status of allStatuses)`, then the next fetch or
\* the end of the cycle.
AllResume(k, ok) ==
  /\ UNCHANGED <<newVars, queryVars, ctlVars, corrVars, taskFields>>
  /\ fetched' = FetchOutcome(ok)
  /\ allCyc[k].pc = "wait"
  /\ LET cyc == allCyc[k]
         s == allStatuses[cyc.idx]
         st0 == [cache |-> taskStatusCache, order |-> cacheOrder, updates |-> cyc.updates]
         st1 == IF ok THEN ObserveAll(st0, Listing(s), s) ELSE st0
     IN /\ bootClean' = (phase = "running" \/ (bootClean /\ ok))
        /\ taskStatusCache' = st1.cache
        /\ cacheOrder' = st1.order
        /\ IF cyc.idx < Len(allStatuses)
           THEN /\ allCyc' = [allCyc EXCEPT ![k] =
                     [pc |-> "wait", idx |-> cyc.idx + 1, updates |-> st1.updates]]
                /\ NoBroadcast
                /\ UNCHANGED phase
           ELSE /\ allCyc' = [allCyc EXCEPT ![k] = IdleAll]
                /\ IF st1.updates # <<>>
                   THEN broadcast([type |-> "task_updates", tasks |-> st1.updates])
                   ELSE NoBroadcast
                /\ phase' = IF phase = "seeding" THEN "seeded" ELSE phase
  /\ UNCHANGED <<rs, agentServerIds, remote, wCyc>>

\* setInterval(pollAllAgentTasks, 10000) fires.
AllTick(k) ==
  /\ UNCHANGED <<newVars, queryVars, ctlVars, corrVars, taskFields>>
  /\ fetched' = "none"
  /\ phase = "running"
  /\ allCyc[k].pc = "idle"
  /\ \A j \in AllSlots : j < k => allCyc[j].pc # "idle"
  /\ Inflight < MaxInflight
  /\ AllStartGuard
  /\ allCyc' = [allCyc EXCEPT ![k] = AllStarted]
  /\ NoBroadcast
  /\ UNCHANGED <<rs, phase, agentServerIds, remote, taskStatusCache, cacheOrder, wCyc, bootClean>>

\* ------------------------------------------------------ pollWatchedTasks
IdleWatched == [pc |-> "idle", pos |-> 0, taskId |-> "", lastStatus |-> "",
                updates |-> <<>>, skipped |-> FALSE]

\* The Map iterator: the first entry at or after pos whose value, read when
\* the entry is visited, is not terminal; Len + 1 when there is none.
NextWatchedMutant(pos, cache, order) == pos

RECURSIVE NextWatched(_, _, _)
NextWatched(pos, cache, order) ==
  IF pos > Len(order) THEN pos
  ELSE IF cache[order[pos]] \in TerminalStatuses
       THEN NextWatched(pos + 1, cache, order)
       ELSE pos

\* (mutant: a batch is broadcast at the fetch that filled it.)
WatchedContinueMutant(k, pos, cache, order, updates) ==
  LET p == NextWatched(pos, cache, order) IN
  /\ IF p <= Len(order)
     THEN wCyc' = [wCyc EXCEPT ![k] =
            [pc |-> "wait", pos |-> p, taskId |-> order[p], lastStatus |-> cache[order[p]],
             updates |-> <<>>, skipped |-> (wCyc[k].skipped \/ p > pos)]]
     ELSE wCyc' = [wCyc EXCEPT ![k] = IdleWatched]
  /\ IF updates # <<>>
     THEN broadcast([type |-> "task_updates", tasks |-> updates])
     ELSE NoBroadcast

\* The loop of pollWatchedTasks from entry pos on: the next fetch, or the end
\* of the cycle with its broadcast.
\* (skipped is history: the cycle passed over a terminal entry.)
WatchedContinue(k, pos, cache, order, updates) ==
  LET p == NextWatched(pos, cache, order) IN
  IF p <= Len(order)
  THEN /\ wCyc' = [wCyc EXCEPT ![k] =
            [pc |-> "wait", pos |-> p, taskId |-> order[p], lastStatus |-> cache[order[p]],
             updates |-> updates, skipped |-> (wCyc[k].skipped \/ p > pos)]]
       /\ NoBroadcast
  ELSE /\ wCyc' = [wCyc EXCEPT ![k] = IdleWatched]
       /\ IF updates # <<>>
          THEN broadcast([type |-> "task_updates", tasks |-> updates])
          ELSE NoBroadcast

\* setInterval(pollWatchedTasks, 10000) fires.
WatchedTick(k) ==
  /\ UNCHANGED <<newVars, queryVars, ctlVars, corrVars, taskFields>>
  /\ fetched' = "none"
  /\ phase = "running"
  /\ wCyc[k].pc = "idle"
  /\ \A j \in WatchedSlots : j < k => wCyc[j].pc # "idle"
  /\ Inflight < MaxInflight
  /\ cacheOrder # <<>>
  /\ clientCount # 0
  /\ WatchedContinue(k, 1, taskStatusCache, cacheOrder, <<>>)
  /\ UNCHANGED <<rs, phase, agentServerIds, remote, taskStatusCache, cacheOrder, allCyc, bootClean>>

\* (mutant: an entry that turns terminal is dropped from the cache.)
WatchedResumeMutant(k, ok) ==
  /\ UNCHANGED <<newVars, queryVars, ctlVars, corrVars, taskFields>>
  /\ fetched' = FetchOutcome(ok)
  /\ wCyc[k].pc = "wait"
  /\ LET cyc == wCyc[k]
         status == remote[cyc.taskId]
         changed == ok /\ status # cyc.lastStatus
         cache1 == IF changed THEN [taskStatusCache EXCEPT ![cyc.taskId] = status]
                   ELSE taskStatusCache
         upd1 == IF changed THEN Append(cyc.updates, [id |-> cyc.taskId, status |-> status])
                 ELSE cyc.updates
     IN /\ taskStatusCache' = [t \in Tasks |-> IF cache1[t] \in TerminalStatuses
                                                THEN Absent ELSE cache1[t]]
        /\ WatchedContinue(k, cyc.pos + 1, cache1, cacheOrder, upd1)
  /\ UNCHANGED <<rs, phase, agentServerIds, remote, cacheOrder, allCyc, bootClean>>

\* The cycle resumes with the answer of GET /tasks/<taskId> (ok), or with a
\* failed fetch (~ok).
WatchedResume(k, ok) ==
  /\ UNCHANGED <<newVars, queryVars, ctlVars, corrVars, taskFields>>
  /\ fetched' = FetchOutcome(ok)
  /\ wCyc[k].pc = "wait"
  /\ LET cyc == wCyc[k]
         status == remote[cyc.taskId]
         changed == ok /\ status # cyc.lastStatus
         cache1 == IF changed THEN [taskStatusCache EXCEPT ![cyc.taskId] = status]
                   ELSE taskStatusCache
         upd1 == IF changed THEN Append(cyc.updates, [id |-> cyc.taskId, status |-> status])
                 ELSE cyc.updates
     IN /\ taskStatusCache' = cache1
        /\ WatchedContinue(k, cyc.pos + 1, cache1, cacheOrder, upd1)
  /\ UNCHANGED <<rs, phase, agentServerIds, remote, cacheOrder, allCyc, bootClean>>

\* ------------------------------------------------------ the control surface
\* The HTTP reply of a control request.
ReplyOff == [status |-> 0, body |-> [off |-> TRUE]]
NoReply == [status |-> 0, body |-> [none |-> TRUE]]

\* res.json(body) and res.status(400).json({ error })
Ok(body) == [status |-> 200, body |-> body]
BadRequestMutant(message) == [status |-> 200, body |-> [error |-> message]]

BadRequest(message) == [status |-> 400, body |-> [error |-> message]]

Replied(r) == reply' = IF reply = ReplyOff THEN reply ELSE r

\* ------------------------------------------------------ POST /api/watch-task
\* taskId and status are the fields of the JSON body, Missing when the body
\* has no such field.
WatchTaskMutant(taskId, status) ==
  /\ UNCHANGED <<newVars, queryVars, corrVars, taskFields>>
  /\ UNCHANGED paymentTxIds
  /\ fetched' = "none"
  /\ IF taskId = Missing
     THEN /\ Replied(BadRequest("taskId required"))
          /\ UNCHANGED <<taskStatusCache, cacheOrder>>
     ELSE /\ taskStatusCache' = [taskStatusCache EXCEPT
                                   ![taskId] = IF status # "" THEN status ELSE "unknown"]
          /\ cacheOrder' = IF taskStatusCache[taskId] = Absent
                           THEN Append(cacheOrder, taskId) ELSE cacheOrder
          /\ Replied(Ok([tracking |-> Len(cacheOrder')]))
  /\ NoBroadcast
  /\ UNCHANGED <<rs, phase, agentServerIds, remote, allCyc, wCyc, bootClean>>

WatchTask(taskId, status) ==
  /\ UNCHANGED <<newVars, queryVars, corrVars, taskFields>>
  /\ UNCHANGED paymentTxIds
  /\ fetched' = "none"
  /\ IF taskId = Missing
     THEN /\ Replied(BadRequest("taskId required"))
          /\ UNCHANGED <<taskStatusCache, cacheOrder>>
     ELSE /\ IF taskStatusCache[taskId] = Absent
             THEN /\ taskStatusCache' = [taskStatusCache EXCEPT
                                   ![taskId] = IF status # "" THEN status ELSE "unknown"]
                  /\ cacheOrder' = Append(cacheOrder, taskId)
             ELSE UNCHANGED <<taskStatusCache, cacheOrder>>
          /\ Replied(Ok([tracking |-> Len(cacheOrder')]))
  /\ NoBroadcast
  /\ UNCHANGED <<rs, phase, agentServerIds, remote, allCyc, wCyc, bootClean>>

\* ------------------------------------------------------ POST /api/push-task
\* const tasks = req.body.tasks || [req.body]
PushedTasks(body) == IF "tasks" \in DOMAIN body THEN body.tasks ELSE <<body.id>>

\* (mutant: the pushed ids are marked as seen.)
PushTaskMutant(body) ==
  /\ ~crashed
  /\ broadcast([type |-> "new_tasks", tasks |-> PushedTasks(body)])
  /\ Replied(Ok([pushed |-> Len(PushedTasks(body)), clients |-> clientCount]))
  /\ fetched' = "none"
  /\ seenNewIds' = seenNewIds \cup {PushedTasks(body)[i] : i \in 1..Len(PushedTasks(body))}
  /\ UNCHANGED <<rs, paymentTxIds>>
  /\ UNCHANGED <<phase, agentServerIds, remote, taskStatusCache, cacheOrder, allCyc, wCyc,
                 bootClean>>
  /\ UNCHANGED <<openRemote, firstFetch, newCyc, seedable>>
  /\ UNCHANGED <<queryVars, corrVars, taskFields>>

PushTask(body) ==
  /\ ~crashed
  /\ broadcast([type |-> "new_tasks", tasks |-> PushedTasks(body)])
  /\ Replied(Ok([pushed |-> Len(PushedTasks(body)), clients |-> clientCount]))
  /\ fetched' = "none"
  /\ UNCHANGED <<rs, paymentTxIds>>
  /\ UNCHANGED <<phase, agentServerIds, remote, taskStatusCache, cacheOrder, allCyc, wCyc,
                 bootClean>>
  /\ UNCHANGED <<newVars, queryVars, corrVars, taskFields>>

\* ------------------------------------------------------ POST /api/payment-tx
\* paymentTxIds.set(taskId, txId)
StoreTxMutant(map, taskId, txId) == [t \in DOMAIN map |-> txId]

StoreTx(map, taskId, txId) == [map EXCEPT ![taskId] = txId]

\* paymentTxIds.get(taskId) || null
LookupTx(map, taskId) == IF map[taskId] = NoTx THEN "null" ELSE map[taskId]

PaymentTx(taskId, txId) ==
  /\ ~crashed
  /\ IF taskId = Missing \/ txId = Missing
     THEN /\ Replied(BadRequest("taskId and txId required"))
          /\ NoBroadcast
          /\ UNCHANGED paymentTxIds
     ELSE /\ paymentTxIds' = StoreTx(paymentTxIds, taskId, txId)
          /\ broadcast([type |-> "payment_tx", taskId |-> taskId, txId |-> txId])
          /\ Replied(Ok([stored |-> TRUE]))
  /\ fetched' = "none"
  /\ UNCHANGED rs
  /\ UNCHANGED <<phase, agentServerIds, remote, taskStatusCache, cacheOrder, allCyc, wCyc,
                 bootClean>>
  /\ UNCHANGED <<newVars, queryVars, corrVars, taskFields>>

\* GET /api/payment-tx/:taskId : res.json({ txId: txId || null })
GetPaymentTx(taskId) ==
  /\ ~crashed
  /\ Replied(Ok([txId |-> LookupTx(paymentTxIds, taskId)]))
  /\ fetched' = "none"
  /\ NoBroadcast
  /\ UNCHANGED <<rs, paymentTxIds>>
  /\ UNCHANGED <<phase, agentServerIds, remote, taskStatusCache, cacheOrder, allCyc, wCyc,
                 bootClean>>
  /\ UNCHANGED <<newVars, queryVars, corrVars, taskFields>>

\* ------------------------------------- POST /api/trigger-poll, /api/reload
\* type is "poll_watched" for trigger-poll and "reload" for reload.
Signal(type) ==
  /\ ~crashed
  /\ broadcast([type |-> type])
  /\ Replied(Ok([clients |-> clientCount]))
  /\ fetched' = "none"
  /\ UNCHANGED <<rs, paymentTxIds>>
  /\ UNCHANGED <<phase, agentServerIds, remote, taskStatusCache, cacheOrder, allCyc, wCyc,
                 bootClean>>
  /\ UNCHANGED <<newVars, queryVars, corrVars, taskFields>>

TriggerPoll == Signal("poll_watched")

Reload == Signal("reload")

\* ------------------------------------------------------ pollNewTasks
IdleNew == [pc |-> "idle", idx |-> 0, tasks |-> <<>>]
NewStarted == [pc |-> "wait", idx |-> 1, tasks |-> <<>>]

\* The answer of TASKS_URLS[i]: the open tasks of network i.
OpenListing(i) == SelectSeq(OpenListingOrder, LAMBDA t : t \in openRemote[i])

SeqIds(tasks) == {tasks[i] : i \in 1..Len(tasks)}

\* tasks.filter(t => !seenNewIds.has(t.id))
NewTasksOfMutant(tasks, seen) == tasks

NewTasksOf(tasks, seen) == SelectSeq(tasks, LAMBDA t : t \notin seen)

\* tasks.forEach(t => seenNewIds.add(t.id))
SeenAfterMutant(seen, tasks) == seen

SeenAfter(seen, tasks) == seen \cup SeqIds(tasks)

\* The task source opens or closes a task on a network.
RemoteOpenChange(i, t) ==
  /\ openRemote' = [openRemote EXCEPT ![i] =
        IF t \in @ THEN @ \ {t} ELSE @ \cup {t}]
  /\ seedable' = IF firstFetch THEN seedable \ {t} ELSE seedable
  /\ fetched' = "none"
  /\ NoBroadcast
  /\ UNCHANGED <<rs, firstFetch, seenNewIds, newCyc>>
  /\ UNCHANGED <<phase, agentServerIds, remote, taskStatusCache, cacheOrder, allCyc, wCyc,
                 bootClean>>
  /\ UNCHANGED <<queryVars, ctlVars, corrVars, taskFields>>

\* The cycle of slot k resumes with the answer of TASKS_URLS[idx] (ok), or
\* with a failed fetch, a non-OK answer or an unparsable body (~ok); after
\* the last URL it runs lines 205-217.
NewResume(k, ok) ==
  /\ newCyc[k].pc = "wait"
  /\ fetched' = FetchOutcome(ok)
  /\ LET cyc == newCyc[k]
         tasks == IF ok THEN cyc.tasks \o OpenListing(cyc.idx) ELSE cyc.tasks
     IN IF cyc.idx < Len(TASKS_URLS)
        THEN /\ newCyc' = [newCyc EXCEPT ![k] =
                  [pc |-> "wait", idx |-> cyc.idx + 1, tasks |-> tasks]]
             /\ NoBroadcast
             /\ UNCHANGED <<firstFetch, seenNewIds>>
        ELSE /\ newCyc' = [newCyc EXCEPT ![k] = IdleNew]
             /\ seenNewIds' = SeenAfter(seenNewIds, tasks)
             /\ firstFetch' = FALSE
             /\ IF firstFetch
                THEN NoBroadcast
                ELSE LET newTasks == NewTasksOf(tasks, seenNewIds) IN
                     IF Len(newTasks) > 0
                     THEN broadcast([type |-> "new_tasks", tasks |-> newTasks])
                     ELSE NoBroadcast
  /\ UNCHANGED <<rs, openRemote, seedable>>
  /\ UNCHANGED <<phase, agentServerIds, remote, taskStatusCache, cacheOrder, allCyc, wCyc,
                 bootClean>>
  /\ UNCHANGED <<queryVars, ctlVars, corrVars, taskFields>>

\* (mutant: a tick is dropped while a cycle is in flight.)
NewTickMutant(k) ==
  /\ phase = "running"
  /\ \A j \in NewSlots : newCyc[j].pc = "idle"
  /\ newCyc[k].pc = "idle"
  /\ \A j \in NewSlots : j < k => newCyc[j].pc # "idle"
  /\ newCyc' = [newCyc EXCEPT ![k] = NewStarted]
  /\ fetched' = "none"
  /\ NoBroadcast
  /\ UNCHANGED <<rs, openRemote, firstFetch, seenNewIds, seedable>>
  /\ UNCHANGED <<phase, agentServerIds, remote, taskStatusCache, cacheOrder, allCyc, wCyc,
                 bootClean>>
  /\ UNCHANGED <<queryVars, ctlVars, corrVars, taskFields>>

\* setInterval(pollNewTasks, 5000) fires.
NewTick(k) ==
  /\ phase = "running"
  /\ newCyc[k].pc = "idle"
  /\ \A j \in NewSlots : j < k => newCyc[j].pc # "idle"
  /\ newCyc' = [newCyc EXCEPT ![k] = NewStarted]
  /\ fetched' = "none"
  /\ NoBroadcast
  /\ UNCHANGED <<rs, openRemote, firstFetch, seenNewIds, seedable>>
  /\ UNCHANGED <<phase, agentServerIds, remote, taskStatusCache, cacheOrder, allCyc, wCyc,
                 bootClean>>
  /\ UNCHANGED <<queryVars, ctlVars, corrVars, taskFields>>

\* ------------------------------------------------------ GET /api/browser-state
\* active[0]: the first open connection in the iteration order of wss.clients.
FirstOpenMutant == CHOOSE c \in Conns : rs[c] = OPEN /\ \A d \in Conns : d > c => rs[d] # OPEN

FirstOpen == CHOOSE c \in Conns : rs[c] = OPEN /\ \A d \in Conns : d < c => rs[d] # OPEN

\* `_stateResolve = (data) => res.json(data)`: the resolver answers request q.
InstallResolverMutant(q) == IF stateResolve # 0 THEN stateResolve ELSE q

InstallResolver(q) == q

\* Request q arrives (requests are numbered in the order of their arrival).
BrowserStateMutant(q) ==
  /\ ~crashed
  /\ qReply[q] = "unsent"
  /\ \A p \in Queries : p < q => qReply[p] # "unsent"
  /\ IF clientCount = 0
     THEN /\ qReply' = [qReply EXCEPT ![q] = "no clients"]
          /\ sent' = NothingSent
          /\ stateResolve' = q
          /\ qTimer' = [qTimer EXCEPT ![q] = "armed"]
          /\ UNCHANGED <<overwritten, qTarget>>
     ELSE /\ qTarget' = [qTarget EXCEPT ![q] = FirstOpen]
          /\ sent' = [c \in Conns |-> IF c = FirstOpen
                                      THEN <<[type |-> "state_request", tasks |-> <<>>]>>
                                      ELSE <<>>]
          /\ stateResolve' = q
          /\ qTimer' = [qTimer EXCEPT ![q] = "armed"]
          /\ qReply' = [qReply EXCEPT ![q] = "waiting"]
          /\ overwritten' = IF stateResolve # 0 THEN overwritten \cup {stateResolve}
                            ELSE overwritten
  /\ bcast' = NoMsg
  /\ fetched' = "none"
  /\ UNCHANGED <<rs, crashed, inbound, taskFields>>
  /\ UNCHANGED ctlVars
  /\ UNCHANGED pollVars
  /\ UNCHANGED newVars

BrowserState(q) ==
  /\ ~crashed
  /\ qReply[q] = "unsent"
  /\ \A p \in Queries : p < q => qReply[p] # "unsent"
  /\ IF clientCount = 0
     THEN /\ qReply' = [qReply EXCEPT ![q] = "no clients"]
          /\ sent' = NothingSent
          /\ UNCHANGED <<stateResolve, qTimer, overwritten, qTarget>>
     ELSE /\ qTarget' = [qTarget EXCEPT ![q] = FirstOpen]
          /\ sent' = [c \in Conns |-> IF c = FirstOpen
                                      THEN <<[type |-> "state_request", tasks |-> <<>>]>>
                                      ELSE <<>>]
          /\ stateResolve' = InstallResolver(q)
          /\ qTimer' = [qTimer EXCEPT ![q] = "armed"]
          /\ qReply' = [qReply EXCEPT ![q] = "waiting"]
          /\ overwritten' = IF stateResolve # 0 THEN overwritten \cup {stateResolve}
                            ELSE overwritten
  /\ bcast' = NoMsg
  /\ fetched' = "none"
  /\ UNCHANGED <<rs, crashed, inbound, taskFields>>
  /\ UNCHANGED ctlVars
  /\ UNCHANGED pollVars
  /\ UNCHANGED newVars

\* The 5 s timer of request q fires; timers of one delay fire in the order in
\* which they were set.  res.json on a response that was already sent throws,
\* and nothing catches an exception of a timer callback.
TimerFire(q) ==
  /\ ~crashed
  /\ qTimer[q] = "armed"
  /\ \A p \in Queries : p < q => qTimer[p] # "armed"
  /\ qTimer' = [qTimer EXCEPT ![q] = "fired"]
  /\ IF stateResolve # 0
     THEN /\ stateResolve' = 0
          /\ IF qReply[q] = "waiting"
             THEN qReply' = [qReply EXCEPT ![q] = "timeout"] /\ UNCHANGED crashed
             ELSE crashed' = TRUE /\ UNCHANGED qReply
     ELSE UNCHANGED <<stateResolve, qReply, crashed>>
  /\ fetched' = "none"
  /\ NoBroadcast
  /\ UNCHANGED <<rs, overwritten>>
  /\ UNCHANGED <<ctlVars, corrVars, taskFields>>
  /\ UNCHANGED <<phase, agentServerIds, remote, taskStatusCache, cacheOrder, allCyc, wCyc,
                 bootClean>>
  /\ UNCHANGED newVars

\* (mutant: every message that parses is taken for the response.)
ClientMessageMutant(c, type) ==
  /\ ~crashed
  /\ rs[c] \in {OPEN, CLOSING}
  /\ IF type # "unparsable" /\ stateResolve # 0
     THEN /\ stateResolve' = 0
          /\ qReply' = IF qReply[stateResolve] = "waiting"
                       THEN [qReply EXCEPT ![stateResolve] = "state_response"]
                       ELSE qReply
     ELSE UNCHANGED <<stateResolve, qReply>>
  /\ fetched' = "none"
  /\ NoBroadcast
  /\ inbound' = c
  /\ UNCHANGED <<rs, qTimer, overwritten, crashed, qTarget, taskFields>>
  /\ UNCHANGED ctlVars
  /\ UNCHANGED <<phase, agentServerIds, remote, taskStatusCache, cacheOrder, allCyc, wCyc,
                 bootClean>>
  /\ UNCHANGED newVars

\* ws.on('message'): connection c sends a message that parses as JSON with
\* type `type`, or does not parse ("unparsable"); an exception of resolve is
\* caught.
ClientMessage(c, type) ==
  /\ ~crashed
  /\ rs[c] \in {OPEN, CLOSING}
  /\ IF type = "state_response" /\ stateResolve # 0
     THEN /\ stateResolve' = 0
          /\ qReply' = IF qReply[stateResolve] = "waiting"
                       THEN [qReply EXCEPT ![stateResolve] = "state_response"]
                       ELSE qReply
     ELSE UNCHANGED <<stateResolve, qReply>>
  /\ fetched' = "none"
  /\ NoBroadcast
  /\ inbound' = c
  /\ UNCHANGED <<rs, qTimer, overwritten, crashed, qTarget, taskFields>>
  /\ UNCHANGED ctlVars
  /\ UNCHANGED <<phase, agentServerIds, remote, taskStatusCache, cacheOrder, allCyc, wCyc,
                 bootClean>>
  /\ UNCHANGED newVars

\* ------------------------------------------------------------ startup
\* The server.listen callback resumes after `await resolveAgentServerIds()`:
\* the directory arrived (ok) or the fetch failed; then pollNewTasks and
\* pollAllAgentTasks each run to their first await.
ListenResume(ok) ==
  /\ fetched' = FetchOutcome(ok)
  /\ phase = "resolving"
  /\ agentServerIds' = IF ok THEN ResolvedIds(AgentDirectory) ELSE {}
  /\ IF agentServerIds' # {} /\ clientCount # 0
     THEN /\ allCyc' = [allCyc EXCEPT ![1] = AllStarted]
          /\ phase' = "seeding"
     ELSE /\ UNCHANGED allCyc
          /\ phase' = "seeded"
  /\ NoBroadcast
  /\ bootClean' = (bootClean /\ ok)
  /\ newCyc' = [newCyc EXCEPT ![1] = NewStarted]
  /\ UNCHANGED <<rs, remote, taskStatusCache, cacheOrder, wCyc>>
  /\ UNCHANGED <<openRemote, firstFetch, seenNewIds, seedable>>
  /\ UNCHANGED <<queryVars, ctlVars, corrVars, taskFields>>

\* The callback resumes after `await pollAllAgentTasks()` and starts the three
\* interval timers.
ListenFinish ==
  /\ UNCHANGED <<newVars, queryVars, ctlVars, corrVars, taskFields>>
  /\ fetched' = "none"
  /\ phase = "seeded"
  /\ phase' = "running"
  /\ bootClean' = TRUE
  /\ NoBroadcast
  /\ UNCHANGED <<rs, agentServerIds, remote, taskStatusCache, cacheOrder, allCyc, wCyc>>

\* ------------------------------------------------------------ SpecPoll
InitConn == rs = [c \in Conns |-> CONNECTING]
InitOut == fetched = "none" /\ bcast = NoMsg /\ sent = NothingSent

\* The state of the new-task poller and of the state query at startup.
InitNewIdle ==
  /\ firstFetch = TRUE
  /\ seenNewIds = {}
  /\ newCyc = [k \in NewSlots |-> IdleNew]

InitQuery ==
  /\ stateResolve = 0
  /\ qReply = [q \in Queries |-> "unsent"]
  /\ qTimer = [q \in Queries |-> "off"]
  /\ overwritten = {}
  /\ crashed = FALSE
  /\ qTarget = [q \in Queries |-> 0]
  /\ inbound = 0

\* The snapshots of the specifications that do not vary them.
InitFields == taskFields = TaskFields

\* The control surface at startup; the specifications of the pollers do not
\* record the replies.
InitControl(r) ==
  /\ paymentTxIds = [t \in Tasks |-> NoTx]
  /\ reply = r

\* The specifications of the status pollers leave the open-task listings
\* empty and do not run the new-task poller beyond its start.
InitPoll ==
  /\ InitConn
  /\ InitOut
  /\ InitNewIdle
  /\ InitQuery
  /\ InitFields
  /\ InitControl(ReplyOff)
  /\ openRemote = [i \in 1..Len(TASKS_URLS) |-> {}]
  /\ seedable = {}
  /\ phase = "resolving"
  /\ agentServerIds = {}
  /\ remote \in [Tasks -> RemoteStatuses]
  /\ taskStatusCache = [t \in Tasks |-> Absent]
  /\ cacheOrder = <<>>
  /\ allCyc = [k \in AllSlots |-> IdleAll]
  /\ wCyc = [k \in WatchedSlots |-> IdleWatched]
  /\ lastSent = [t \in Tasks |-> "off"]
  /\ bootClean = TRUE

ConnNext(cs) ==
  \E c \in cs : ClientConnect(c) \/ ClientClosing(c) \/ ClientClosed(c)

PollerNext ==
  \/ \E ok \in BOOLEAN : ListenResume(ok)
  \/ ListenFinish
  \/ \E k \in AllSlots : AllTick(k) \/ \E ok \in BOOLEAN : AllResume(k, ok)
  \/ \E k \in WatchedSlots : WatchedTick(k) \/ \E ok \in BOOLEAN : WatchedResume(k, ok)
  \/ \E t \in Tasks, s \in WatchStatusInputs : WatchTask(t, s)

NextPoll ==
  \/ ConnNext(PollConns)
  \/ PollerNext
  \/ \E t \in Tasks, s \in RemoteStatuses : RemoteChange(t, s)

SpecPoll == InitPoll /\ [][NextPoll]_vars

\* ------------------------------------------------------------ SpecStable
\* The remote returns the same status for a task in every fetch, and the
\* task_updates history is recorded.
InitStable ==
  /\ InitConn
  /\ InitOut
  /\ InitNewIdle
  /\ InitQuery
  /\ InitFields
  /\ InitControl(ReplyOff)
  /\ openRemote = [i \in 1..Len(TASKS_URLS) |-> {}]
  /\ seedable = {}
  /\ phase = "resolving"
  /\ agentServerIds = {}
  /\ remote \in [Tasks -> RemoteStatuses]
  /\ taskStatusCache = [t \in Tasks |-> Absent]
  /\ cacheOrder = <<>>
  /\ allCyc = [k \in AllSlots |-> IdleAll]
  /\ wCyc = [k \in WatchedSlots |-> IdleWatched]
  /\ lastSent = [t \in Tasks |-> "none"]
  /\ bootClean = TRUE

NextStable ==
  \/ ConnNext(PollConns)
  \/ PollerNext

SpecStable == InitStable /\ [][NextStable]_vars

\* ------------------------------------------------------------ SpecNew
\* Startup and the new-task poller; the status of the tasks of the status
\* pollers does not change.
InitNew ==
  /\ InitConn
  /\ InitOut
  /\ InitNewIdle
  /\ InitQuery
  /\ InitFields
  /\ InitControl(ReplyOff)
  /\ openRemote \in [1..Len(TASKS_URLS) -> SUBSET OpenTasks]
  /\ seedable = UNION {openRemote[i] : i \in 1..Len(TASKS_URLS)}
  /\ phase = "resolving"
  /\ agentServerIds = {}
  /\ remote = [t \in Tasks |-> "bidding"]
  /\ taskStatusCache = [t \in Tasks |-> Absent]
  /\ cacheOrder = <<>>
  /\ allCyc = [k \in AllSlots |-> IdleAll]
  /\ wCyc = [k \in WatchedSlots |-> IdleWatched]
  /\ lastSent = [t \in Tasks |-> "off"]
  /\ bootClean = TRUE

NextNew ==
  \/ ConnNext(PollConns)
  \/ \E ok \in BOOLEAN : ListenResume(ok)
  \/ \E k \in AllSlots, ok \in BOOLEAN : AllResume(k, ok)
  \/ ListenFinish
  \/ \E k \in NewSlots : NewTick(k) \/ \E ok \in BOOLEAN : NewResume(k, ok)
  \/ \E i \in 1..Len(TASKS_URLS), t \in OpenTasks : RemoteOpenChange(i, t)

SpecNew == InitNew /\ [][NextNew]_vars

\* ------------------------------------------------------------ SpecFanout
\* The broadcasts of the new-task poller to every connection, from the state
\* in which the agent directory could not be fetched, the interval timers
\* run and the startup call of pollNewTasks is in flight.
InitFanout ==
  /\ InitConn
  /\ InitOut
  /\ InitQuery
  /\ InitFields
  /\ InitControl(ReplyOff)
  /\ firstFetch = TRUE
  /\ seenNewIds = {}
  /\ newCyc = [k \in NewSlots |-> IF k = 1 THEN NewStarted ELSE IdleNew]
  /\ openRemote \in [1..Len(TASKS_URLS) -> SUBSET OpenTasks]
  /\ seedable = UNION {openRemote[i] : i \in 1..Len(TASKS_URLS)}
  /\ phase = "running"
  /\ agentServerIds = {}
  /\ remote = [t \in Tasks |-> "bidding"]
  /\ taskStatusCache = [t \in Tasks |-> Absent]
  /\ cacheOrder = <<>>
  /\ allCyc = [k \in AllSlots |-> IdleAll]
  /\ wCyc = [k \in WatchedSlots |-> IdleWatched]
  /\ lastSent = [t \in Tasks |-> "off"]
  /\ bootClean = TRUE

NextFanout ==
  \/ ConnNext(Conns)
  \/ \E k \in NewSlots : NewTick(k) \/ \E ok \in BOOLEAN : NewResume(k, ok)
  \/ \E i \in 1..Len(TASKS_URLS), t \in OpenTasks : RemoteOpenChange(i, t)

SpecFanout == InitFanout /\ [][NextFanout]_vars

\* ------------------------------------------------------------ SpecQuery
\* The state queries and the connections, while the server.listen callback
\* waits for the agent directory.
InitQ ==
  /\ InitConn
  /\ InitOut
  /\ InitNewIdle
  /\ InitQuery
  /\ InitFields
  /\ InitControl(ReplyOff)
  /\ openRemote = [i \in 1..Len(TASKS_URLS) |-> {}]
  /\ seedable = {}
  /\ phase = "resolving"
  /\ agentServerIds = {}
  /\ remote = [t \in Tasks |-> "bidding"]
  /\ taskStatusCache = [t \in Tasks |-> Absent]
  /\ cacheOrder = <<>>
  /\ allCyc = [k \in AllSlots |-> IdleAll]
  /\ wCyc = [k \in WatchedSlots |-> IdleWatched]
  /\ lastSent = [t \in Tasks |-> "off"]
  /\ bootClean = TRUE

NextQuery ==
  \/ ConnNext(Conns)
  \/ \E q \in Queries : BrowserState(q) \/ TimerFire(q)
  \/ \E c \in Conns, type \in MessageTypes : ClientMessage(c, type)

SpecQuery == InitQ /\ [][NextQuery]_vars

\* ------------------------------------------------------------ SpecControl
\* The control surface and the connections once the interval timers run:
\* the agent directory could not be fetched and the startup call of
\* pollNewTasks found no open task.
InitRunning ==
  /\ InitConn
  /\ InitOut
  /\ InitQuery
  /\ InitFields
  /\ firstFetch = FALSE
  /\ seenNewIds = {}
  /\ newCyc = [k \in NewSlots |-> IdleNew]
  /\ openRemote = [i \in 1..Len(TASKS_URLS) |-> {}]
  /\ seedable = {}
  /\ phase = "running"
  /\ agentServerIds = {}
  /\ remote = [t \in Tasks |-> "bidding"]
  /\ taskStatusCache = [t \in Tasks |-> Absent]
  /\ cacheOrder = <<>>
  /\ allCyc = [k \in AllSlots |-> IdleAll]
  /\ wCyc = [k \in WatchedSlots |-> IdleWatched]
  /\ lastSent = [t \in Tasks |-> "off"]
  /\ bootClean = TRUE

InitCtl == InitRunning /\ InitControl(NoReply)

ControlNext ==
  \/ \E taskId \in Tasks \cup {Missing}, status \in WatchStatusInputs : WatchTask(taskId, status)
  \/ \E body \in PushBodies : PushTask(body)
  \/ \E taskId \in Tasks \cup {Missing}, txId \in TxIds \cup {Missing} : PaymentTx(taskId, txId)
  \/ \E taskId \in Tasks : GetPaymentTx(taskId)
  \/ TriggerPoll
  \/ Reload

NextControl ==
  \/ ConnNext(Conns)
  \/ ControlNext

SpecControl == InitCtl /\ [][NextControl]_vars

\* ------------------------------------------------------------ SpecLive
\* The status pollers under fair scheduling: connection 1 stays open, the
\* interval timers keep firing, every fetch is answered, and a fetch of
\* task X succeeds again and again.  X is in the cache with a non-terminal
\* status; the remote changes its status at will.
InitLive ==
  /\ rs = [c \in Conns |-> IF c = 1 THEN OPEN ELSE CONNECTING]
  /\ InitOut
  /\ InitQuery
  /\ InitFields
  /\ InitControl(ReplyOff)
  /\ firstFetch = FALSE
  /\ seenNewIds = {}
  /\ newCyc = [k \in NewSlots |-> IdleNew]
  /\ openRemote = [i \in 1..Len(TASKS_URLS) |-> {}]
  /\ seedable = {}
  /\ phase = "running"
  /\ agentServerIds = ResolvedIds(AgentDirectory)
  /\ remote \in {r \in [Tasks -> RemoteStatuses] : r["Y"] = "bidding"}
  /\ \E v \in {"unknown", "bidding"} :
       taskStatusCache = [t \in Tasks |-> IF t = "X" THEN v ELSE Absent]
  /\ cacheOrder = <<"X">>
  /\ allCyc = [k \in AllSlots |-> IdleAll]
  /\ wCyc = [k \in WatchedSlots |-> IdleWatched]
  /\ lastSent = [t \in Tasks |-> "none"]
  /\ bootClean = TRUE

NextLive ==
  \/ \E k \in AllSlots : AllTick(k) \/ \E ok \in BOOLEAN : AllResume(k, ok)
  \/ \E k \in WatchedSlots : WatchedTick(k) \/ \E ok \in BOOLEAN : WatchedResume(k, ok)
  \/ \E s \in RemoteStatuses : RemoteChange("X", s)

FairLive ==
  /\ SF_vars(\E k \in WatchedSlots : WatchedTick(k))
  /\ \A k \in AllSlots : WF_vars(\E ok \in BOOLEAN : AllResume(k, ok))
  /\ \A k \in WatchedSlots : WF_vars(\E ok \in BOOLEAN : WatchedResume(k, ok))
  /\ SF_vars(\E k \in WatchedSlots : wCyc[k].taskId = "X" /\ WatchedResume(k, TRUE))

SpecLive == InitLive /\ [][NextLive]_vars /\ FairLive

\* ------------------------------------------------------------ SpecFail
\* The three pollers when every fetch fails, from the state in which the
\* startup seeded X with a client connected, the interval timers run and the
\* startup call of pollNewTasks is still in flight.
InitFail ==
  /\ rs = [c \in Conns |-> IF c = 1 THEN OPEN ELSE CONNECTING]
  /\ InitOut
  /\ InitQuery
  /\ InitFields
  /\ InitControl(ReplyOff)
  /\ firstFetch = TRUE
  /\ seenNewIds = {}
  /\ newCyc = [k \in NewSlots |-> IF k = 1 THEN NewStarted ELSE IdleNew]
  /\ openRemote \in [1..Len(TASKS_URLS) -> SUBSET OpenTasks]
  /\ seedable = UNION {openRemote[i] : i \in 1..Len(TASKS_URLS)}
  /\ phase = "running"
  /\ agentServerIds = ResolvedIds(AgentDirectory)
  /\ remote = [t \in Tasks |-> "assigned"]
  /\ taskStatusCache = [t \in Tasks |-> IF t = "X" THEN "bidding" ELSE Absent]
  /\ cacheOrder = <<"X">>
  /\ allCyc = [k \in AllSlots |-> IdleAll]
  /\ wCyc = [k \in WatchedSlots |-> IdleWatched]
  /\ lastSent = [t \in Tasks |-> "off"]
  /\ bootClean = TRUE

NextFail ==
  \/ ConnNext(Conns)
  \/ \E k \in AllSlots : AllTick(k) \/ AllResume(k, FALSE)
  \/ \E k \in WatchedSlots : WatchedTick(k) \/ WatchedResume(k, FALSE)
  \/ \E k \in NewSlots : NewTick(k) \/ NewResume(k, FALSE)

SpecFail == InitFail /\ [][NextFail]_vars

\* ------------------------------------------------------------ SpecService
\* The inbound events of the running server that carry client input: state
\* queries, client messages of any kind, control requests that fail the
\* validation, and the connections.
NextService ==
  \/ ConnNext(Conns)
  \/ \E q \in Queries : BrowserState(q) \/ TimerFire(q)
  \/ \E c \in Conns, type \in MessageTypes : ClientMessage(c, type)
  \/ \E status \in WatchStatusInputs : WatchTask(Missing, status)
  \/ \E txId \in TxIds \cup {Missing} : PaymentTx(Missing, txId)

SpecService == InitCtl /\ [][NextService]_vars

\* ------------------------------------------------------------ SpecIdentity
\* Startup and the three pollers over every snapshot of task Y: the agent
\* directory arrives or not, every later fetch is answered, and the interval
\* timers keep firing.
InitIdentity ==
  /\ InitConn
  /\ InitOut
  /\ InitNewIdle
  /\ InitQuery
  /\ InitControl(ReplyOff)
  /\ taskFields \in {f \in [Tasks -> Snapshots] : f["X"] = TaskFields["X"]}
  /\ openRemote = [i \in 1..Len(TASKS_URLS) |-> {}]
  /\ seedable = {}
  /\ phase = "resolving"
  /\ agentServerIds = {}
  /\ remote = [t \in Tasks |-> "bidding"]
  /\ taskStatusCache = [t \in Tasks |-> Absent]
  /\ cacheOrder = <<>>
  /\ allCyc = [k \in AllSlots |-> IdleAll]
  /\ wCyc = [k \in WatchedSlots |-> IdleWatched]
  /\ lastSent = [t \in Tasks |-> "off"]
  /\ bootClean = TRUE

NextIdentity ==
  \/ ConnNext(PollConns)
  \/ \E ok \in BOOLEAN : ListenResume(ok)
  \/ ListenFinish
  \/ \E k \in AllSlots : AllTick(k) \/ AllResume(k, TRUE)
  \/ \E k \in WatchedSlots : WatchedTick(k) \/ WatchedResume(k, TRUE)
  \/ \E k \in NewSlots : NewTick(k) \/ NewResume(k, TRUE)

FairIdentity ==
  /\ WF_vars(\E ok \in BOOLEAN : ListenResume(ok))
  /\ WF_vars(ListenFinish)
  /\ SF_vars(\E k \in AllSlots : AllTick(k))
  /\ SF_vars(\E k \in WatchedSlots : WatchedTick(k))
  /\ SF_vars(\E k \in NewSlots : NewTick(k))
  /\ \A k \in AllSlots : WF_vars(AllResume(k, TRUE))
  /\ \A k \in WatchedSlots : WF_vars(WatchedResume(k, TRUE))
  /\ \A k \in NewSlots : WF_vars(NewResume(k, TRUE))

SpecIdentity == InitIdentity /\ [][NextIdentity]_vars /\ FairIdentity

\* ------------------------------------------------------------ SpecOverlap
\* The three pollers once the interval timers run, with slow fetches: the
\* agent directory was resolved, connection 1 is open, X is in the cache, and
\* task A is open on the first network.
InitOverlap ==
  /\ rs = [c \in Conns |-> IF c = 1 THEN OPEN ELSE CONNECTING]
  /\ InitOut
  /\ InitQuery
  /\ InitFields
  /\ InitControl(ReplyOff)
  /\ firstFetch = FALSE
  /\ seenNewIds = {}
  /\ newCyc = [k \in NewSlots |-> IdleNew]
  /\ openRemote = [i \in 1..Len(TASKS_URLS) |-> IF i = 1 THEN {"A"} ELSE {}]
  /\ seedable = {}
  /\ phase = "running"
  /\ agentServerIds = ResolvedIds(AgentDirectory)
  /\ remote \in {r \in [Tasks -> RemoteStatuses] : r["Y"] = "bidding"}
  /\ \E v \in {"unknown", "bidding"} :
       taskStatusCache = [t \in Tasks |-> IF t = "X" THEN v ELSE Absent]
  /\ cacheOrder = <<"X">>
  /\ allCyc = [k \in AllSlots |-> IdleAll]
  /\ wCyc = [k \in WatchedSlots |-> IdleWatched]
  /\ lastSent = [t \in Tasks |-> "off"]
  /\ bootClean = TRUE

NextOverlap ==
  \/ \E k \in AllSlots : AllTick(k) \/ \E ok \in BOOLEAN : AllResume(k, ok)
  \/ \E k \in WatchedSlots : WatchedTick(k) \/ \E ok \in BOOLEAN : WatchedResume(k, ok)
  \/ \E k \in NewSlots : NewTick(k) \/ \E ok \in BOOLEAN : NewResume(k, ok)
  \/ \E s \in RemoteStatuses : RemoteChange("X", s)

SpecOverlap == InitOverlap /\ [][NextOverlap]_vars

\* ------------------------------------------------------------ SpecFrame
\* The writers of the cache and of the seen set side by side: the three
\* pollers, watch-task and push-task, with X cached as "unknown", listed by
\* the remote as "assigned", and A open on the first network.
InitFrame ==
  /\ InitOverlap
  /\ remote["X"] = "assigned"
  /\ taskStatusCache["X"] = "unknown"

NextFrame ==
  \/ \E k \in AllSlots : AllTick(k) \/ \E ok \in BOOLEAN : AllResume(k, ok)
  \/ \E k \in WatchedSlots : WatchedTick(k) \/ \E ok \in BOOLEAN : WatchedResume(k, ok)
  \/ \E k \in NewSlots : NewTick(k) \/ \E ok \in BOOLEAN : NewResume(k, ok)
  \/ \E taskId \in Tasks, status \in WatchStatusInputs : WatchTask(taskId, status)
  \/ \E body \in PushBodies : PushTask(body)

SpecFrame == InitFrame /\ [][NextFrame]_vars

\* ------------------------------------------------------------ SpecAbsent
\* The status pollers around the life of one connection, under the fair
\* scheduling of SpecLive: nobody is connected at first, X is in the cache
\* with a non-terminal status, and the remote changes its status at will.
InitAbsent ==
  /\ InitConn
  /\ InitOut
  /\ InitQuery
  /\ InitFields
  /\ InitControl(ReplyOff)
  /\ firstFetch = FALSE
  /\ seenNewIds = {}
  /\ newCyc = [k \in NewSlots |-> IdleNew]
  /\ openRemote = [i \in 1..Len(TASKS_URLS) |-> {}]
  /\ seedable = {}
  /\ phase = "running"
  /\ agentServerIds = ResolvedIds(AgentDirectory)
  /\ remote \in {r \in [Tasks -> RemoteStatuses] : r["Y"] = "bidding"}
  /\ \E v \in {"unknown", "bidding"} :
       taskStatusCache = [t \in Tasks |-> IF t = "X" THEN v ELSE Absent]
  /\ cacheOrder = <<"X">>
  /\ allCyc = [k \in AllSlots |-> IdleAll]
  /\ wCyc = [k \in WatchedSlots |-> IdleWatched]
  /\ lastSent = [t \in Tasks |-> "none"]
  /\ bootClean = TRUE

NextAbsent ==
  \/ ConnNext(PollConns)
  \/ NextLive

SpecAbsent == InitAbsent /\ [][NextAbsent]_vars /\ FairLive

\* ====================================================================
\* Claims about the status pollers
\* ====================================================================
Range(f) == {f[i] : i \in DOMAIN f}
Snapshot(t, s) == [id |-> t, status |-> s]
IsPrefix(a, b) == Len(a) <= Len(b) /\ SubSeq(b, 1, Len(a)) = a

\* The batch of slot k after a step: the updates it holds, or, when the step
\* ended the cycle, the tasks of the message it broadcast.
AllBatchAfter(k) == IF allCyc'[k].pc = "idle" THEN bcast'.tasks ELSE allCyc'[k].updates
WatchedBatchAfter(k) == IF wCyc'[k].pc = "idle" THEN bcast'.tasks ELSE wCyc'[k].updates
Added(before, after) == SubSeq(after, Len(before) + 1, Len(after))

AllResumed(k) == allCyc[k].pc = "wait" /\ allCyc'[k] # allCyc[k]
WatchedResumed(k) == wCyc[k].pc = "wait" /\ wCyc'[k] # wCyc[k]

\* C1: in a pollAllAgentTasks step that resumes with the listing of status s,
\* every task of the listing that passes isOurTask is handled by its cached
\* status: absent, it is inserted with s and not added to the batch
\* (FIRST_SEEN); equal to s, nothing changes (UNCHANGED); different, the cache
\* takes s and the snapshot joins the batch (CHANGED).  Every other entry is
\* left alone, a failed fetch changes nothing, and the cycle ends by
\* broadcasting its batch as task_updates when the batch is not empty.
C1_Step(k) ==
  LET s == allStatuses[allCyc[k].idx]
      old == allCyc[k].updates
      after == AllBatchAfter(k)
      new == Added(old, after)
      Observed(t) == fetched' = "ok" /\ isOurTask(t) /\ remote[t] = s
  IN /\ IsPrefix(old, after)
     /\ \A i \in 1..Len(new) : new[i].status = s
     /\ \A t \in Tasks :
          LET inNew == Snapshot(t, s) \in Range(new) IN
          IF ~Observed(t) THEN taskStatusCache'[t] = taskStatusCache[t] /\ ~inNew
          ELSE IF taskStatusCache[t] = Absent THEN taskStatusCache'[t] = s /\ ~inNew
          ELSE IF taskStatusCache[t] = s THEN taskStatusCache'[t] = s /\ ~inNew
          ELSE taskStatusCache'[t] = s /\ inNew
     /\ allCyc'[k].pc = "idle" =>
          bcast' = IF after # <<>> THEN [type |-> "task_updates", tasks |-> after] ELSE NoMsg

C2_NoRepeat ==
  bcast'.type = "task_updates" =>
    \A i \in 1..Len(bcast'.tasks) :
      LET e == bcast'.tasks[i]
          earlier == {j \in 1..(i-1) : bcast'.tasks[j].id = e.id}
          prev == IF earlier = {} THEN lastSent[e.id]
                  ELSE bcast'.tasks[CHOOSE j \in earlier : \A j2 \in earlier : j2 <= j].status
      IN e.status # prev

C2_NotCached ==
  /\ \A k \in AllSlots : AllResumed(k) =>
       \A e \in Range(Added(allCyc[k].updates, AllBatchAfter(k))) :
         taskStatusCache[e.id] # e.status
  /\ \A k \in WatchedSlots : WatchedResumed(k) =>
       \A e \in Range(Added(wCyc[k].updates, WatchedBatchAfter(k))) :
         taskStatusCache[e.id] # e.status

C2_NoDuplicateStatus == [][C2_NoRepeat /\ C2_NotCached]_vars

\* C8: when the remote returns the same status for a task in every fetch, at
\* most one task_updates broadcast ever carries the task.
C8_AtMostOneUpdate ==
  [][bcast'.type = "task_updates" =>
       \A e \in Range(bcast'.tasks) : lastSent[e.id] = "none"]_vars

\* C9: when the startup call of pollAllAgentTasks has returned and the
\* interval timers are about to start, every task of ours that the remote
\* lists is in the cache (no fetch failed and the remote did not change
\* during startup).
C9_StartupSeedsCache ==
  (phase = "seeded" /\ bootClean) =>
    \A t \in Tasks :
      (isOurTask(t) /\ remote[t] \in Range(allStatuses)) => taskStatusCache[t] # Absent

\* C10: pollWatchedTasks fetches an entry only when the status the cache holds
\* for it at the moment the entry is visited is not terminal, it keeps that
\* status as lastStatus, and it passes over an entry only when the status read
\* at that moment is terminal.
C10_Fetching ==
  \A k \in WatchedSlots :
    wCyc[k].pc = "wait" => wCyc[k].lastStatus \notin TerminalStatuses

C10_Visit(k) ==
  LET from == wCyc[k].pos + 1
      upto == IF wCyc'[k].pc = "wait" THEN wCyc'[k].pos - 1 ELSE Len(cacheOrder')
  IN /\ \A i \in from..upto : taskStatusCache'[cacheOrder'[i]] \in TerminalStatuses
     /\ wCyc'[k].pc = "wait" =>
          /\ wCyc'[k].pos >= from
          /\ wCyc'[k].taskId = cacheOrder'[wCyc'[k].pos]
          /\ wCyc'[k].lastStatus = taskStatusCache'[wCyc'[k].taskId]
          /\ wCyc'[k].lastStatus \notin TerminalStatuses

C10_SkipsTerminal ==
  /\ []C10_Fetching
  /\ [][\A k \in WatchedSlots :
          wCyc'[k] # wCyc[k] => C10_Visit(k)]_vars

\* C10 witness: a cycle passed over a terminal entry and is fetching a later
\* entry, whose status is not terminal.
C10_Witness ==
  \E k \in WatchedSlots :
    /\ wCyc[k].pc = "wait"
    /\ wCyc[k].skipped
    /\ wCyc[k].pos = 2
    /\ taskStatusCache[cacheOrder[1]] \in TerminalStatuses

\* ====================================================================
\* Claims about the new-task poller and the broadcast
\* ====================================================================
Count(x, seq) == Cardinality({i \in 1..Len(seq) : seq[i] = x})

NewEnded(k) == newCyc[k].pc = "wait" /\ newCyc'[k].pc = "idle"

\* C3: the first pollNewTasks cycle to complete adds every fetched id to
\* seenNewIds and broadcasts nothing; a later cycle broadcasts one new_tasks
\* message with exactly the fetched tasks whose ids were not in seenNewIds,
\* nothing when there are none, and leaves every fetched id in the set; no
\* other step of the poller touches the set or broadcasts.
C3_Step(k) ==
  LET Fetched(t) == Count(t, newCyc[k].tasks)
                    + (IF fetched' = "ok" /\ t \in openRemote[newCyc[k].idx] THEN 1 ELSE 0)
      fetchedIds == {t \in OpenTasks : Fetched(t) > 0}
  IN /\ seenNewIds' = seenNewIds \cup fetchedIds
     /\ firstFetch' = FALSE
     /\ IF firstFetch THEN bcast' = NoMsg
        ELSE IF fetchedIds \subseteq seenNewIds THEN bcast' = NoMsg
        ELSE /\ bcast'.type = "new_tasks"
             /\ \A t \in OpenTasks :
                  Count(t, bcast'.tasks) = IF t \in seenNewIds THEN 0 ELSE Fetched(t)

C3_SeedThenNew ==
  [][/\ \A k \in NewSlots : NewEnded(k) => C3_Step(k)
     /\ (\A k \in NewSlots : ~NewEnded(k)) =>
          /\ seenNewIds' = seenNewIds
          /\ firstFetch' = firstFetch
          /\ bcast'.type # "new_tasks"]_vars

\* C3 witness: A was seeded by the first cycle, B appeared later and a cycle
\* broadcast exactly B.
C3_Witness ==
  /\ bcast = [type |-> "new_tasks", tasks |-> <<"B">>]
  /\ seenNewIds = {"A", "B"}
  /\ ~firstFetch

\* C4: a task that was open when the first pollNewTasks cycle ran is never
\* broadcast in a new_tasks message.
C4_SeededNeverNew ==
  bcast.type = "new_tasks" => \A i \in 1..Len(bcast.tasks) : bcast.tasks[i] \notin seedable

\* C7: a broadcast sends the message once to every connection that is open
\* and nothing to a connection in another state, and a connection is sent
\* nothing but the message of the step: no earlier message reaches a
\* connection that was not open when it was broadcast.
C7_Fanout ==
  [][\A c \in Conns :
       sent'[c] = IF bcast' # NoMsg /\ rs[c] = OPEN THEN <<bcast'>> ELSE <<>>]_vars

\* C7 witness: a message was broadcast while connection 1 was closing and
\* connection 2 open; only connection 2 was sent it.
C7_Witness ==
  /\ bcast # NoMsg
  /\ rs[1] = CLOSING /\ sent[1] = <<>>
  /\ rs[2] = OPEN /\ sent[2] = <<bcast>>

\* ====================================================================
\* Claims about the state query
\* ====================================================================
\* C5: every /api/browser-state request has its reply when its 5 s timer
\* has fired.
C5_RepliedByTimeout ==
  \A q \in Queries : qTimer[q] = "fired" => qReply[q] # "waiting"

\* C6: a request whose resolver a later request replaced is never answered
\* with a state_response; a state_response answers the request that
\* _stateResolve holds, which is the latest one that was forwarded to a
\* client, and a timeout reply is written by the request's own timer.
C6_Overwritten ==
  \A q \in overwritten : qReply[q] \in {"waiting", "timeout"}

C6_Step ==
  \A q \in Queries :
    /\ (qReply'[q] = "state_response" /\ qReply[q] # "state_response") =>
         /\ stateResolve = q
         /\ \A p \in Queries : p > q => qReply[p] \in {"unsent", "no clients"}
    /\ (qReply'[q] = "timeout" /\ qReply[q] # "timeout") =>
         qTimer[q] = "armed" /\ qTimer'[q] = "fired"

C6_OverwriteNotQueue == []C6_Overwritten /\ [][C6_Step]_vars

\* C6 witness: the second request replaced the resolver of the first and
\* received the state_response; the first is still waiting.
C6_Witness ==
  /\ 1 \in overwritten
  /\ qReply[2] = "state_response"
  /\ qReply[1] = "waiting"

\* ====================================================================
\* Claims about convergence and failures
\* ====================================================================
Tracked(t) == taskStatusCache[t] \notin TerminalStatuses \cup {Absent}

C12_FailureMutatesNothing ==
  [][/\ taskStatusCache' = taskStatusCache
     /\ cacheOrder' = cacheOrder
     /\ seenNewIds' = seenNewIds
     /\ firstFetch' = firstFetch
     /\ bcast' = NoMsg]_vars
\* C13: once the interval timers run, no sequence of state queries, client
\* messages, invalid control requests, connects and disconnects ends the
\* process with an uncaught exception.
C13_NeverCrashes == phase = "running" => ~crashed
\* ====================================================================
\* Claims about the control surface
\* ====================================================================
\* The connections that were sent something in the step.
Recipients == {c \in Conns : sent'[c] # <<>>}

\* The step broadcast one message of the given type: no connection was sent
\* anything but one copy of it.
OneBroadcast(type) ==
  /\ bcast'.type = type
  /\ \A c \in Conns : sent'[c] \in {<<>>, <<bcast'>>}

\* C14: each valid push-task, payment-tx, trigger-poll and reload request
\* broadcasts exactly one message, of type new_tasks, payment_tx,
\* poll_watched and reload, and the `clients` of the reply of push-task,
\* trigger-poll and reload is the number of connections it was sent to.
C14_OneBroadcastEach ==
  [][/\ \A body \in PushBodies : PushTask(body) =>
          /\ OneBroadcast("new_tasks")
          /\ reply'.status = 200
          /\ reply'.body.pushed = Len(bcast'.tasks)
          /\ reply'.body.clients = Cardinality(Recipients)
     /\ \A taskId \in Tasks, txId \in TxIds : PaymentTx(taskId, txId) =>
          /\ OneBroadcast("payment_tx")
          /\ bcast'.taskId = taskId /\ bcast'.txId = txId
          /\ reply' = Ok([stored |-> TRUE])
     /\ TriggerPoll =>
          /\ OneBroadcast("poll_watched")
          /\ reply' = Ok([clients |-> Cardinality(Recipients)])
     /\ Reload =>
          /\ OneBroadcast("reload")
          /\ reply' = Ok([clients |-> Cardinality(Recipients)])]_vars

\* C14 witness: a reload was sent to the one open connection, not to the
\* closing one, and the reply counts one client.
C14_Witness ==
  /\ bcast = [type |-> "reload"]
  /\ rs[1] = CLOSING /\ sent[1] = <<>>
  /\ rs[2] = OPEN /\ sent[2] = <<bcast>>
  /\ reply = Ok([clients |-> 1])
\* The step is a control request that was refused: HTTP 400 with an error
\* body, the payment map and the cache as before, nothing sent.
Refused ==
  /\ reply'.status = 400
  /\ DOMAIN reply'.body = {"error"}
  /\ paymentTxIds' = paymentTxIds
  /\ taskStatusCache' = taskStatusCache
  /\ cacheOrder' = cacheOrder
  /\ bcast' = NoMsg
  /\ \A c \in Conns : sent'[c] = <<>>

\* C15: a payment-tx request without taskId or without txId and a
\* watch-task request without taskId are answered with HTTP 400 and an error
\* body, change neither the payment map nor the cache and broadcast nothing.
C15_MissingFieldRefused ==
  [][/\ \A taskId \in Tasks \cup {Missing}, txId \in TxIds \cup {Missing} :
          (PaymentTx(taskId, txId) /\ (taskId = Missing \/ txId = Missing)) => Refused
     /\ \A status \in WatchStatusInputs : WatchTask(Missing, status) => Refused]_vars

\* C15 witness: a request was refused while the payment map and the cache
\* held entries.
C15_Witness ==
  /\ reply = [status |-> 400, body |-> [error |-> "taskId and txId required"]]
  /\ paymentTxIds["X"] = "tx1"
  /\ taskStatusCache["Y"] = "unknown"
  /\ bcast = NoMsg

\* C19: a valid payment-tx POST stores its txId under its taskId and leaves
\* every other entry as it was; no other step changes the map, so an entry
\* stays until a later POST for its taskId and is never removed; the GET
\* returns the stored txId, and null for a taskId that has no entry.
C19_PaymentRoundTrip ==
  [][/\ \A taskId \in Tasks, txId \in TxIds : PaymentTx(taskId, txId) =>
          /\ paymentTxIds'[taskId] = txId
          /\ \A u \in Tasks \ {taskId} : paymentTxIds'[u] = paymentTxIds[u]
     /\ (\A taskId \in Tasks, txId \in TxIds : ~PaymentTx(taskId, txId)) =>
          paymentTxIds' = paymentTxIds
     /\ \A taskId \in Tasks : paymentTxIds[taskId] # NoTx => paymentTxIds'[taskId] # NoTx
     /\ \A taskId \in Tasks : GetPaymentTx(taskId) =>
          reply' = [status |-> 200,
                    body |-> [txId |-> IF paymentTxIds[taskId] \in TxIds
                                       THEN paymentTxIds[taskId] ELSE "null"]]]_vars

\* C19 witness: tx2 is stored for X and tx1 for Y, and the GET of X replied
\* tx2.
C19_Witness ==
  /\ paymentTxIds = [t \in Tasks |-> IF t = "X" THEN "tx2" ELSE "tx1"]
  /\ reply = [status |-> 200, body |-> [txId |-> "tx2"]]

\* C20: a watch-task request with a taskId inserts the task with the status
\* of the request, or "unknown" when it has none, only when the id is not
\* cached, and leaves a cached status as it is; the reply's tracking is the
\* size of the cache after the request and nothing is broadcast.
C20_WatchInsertsIfAbsent ==
  [][\A taskId \in Tasks, status \in WatchStatusInputs : WatchTask(taskId, status) =>
       /\ taskStatusCache' =
            IF taskStatusCache[taskId] = Absent
            THEN [taskStatusCache EXCEPT ![taskId] = IF status = "" THEN "unknown" ELSE status]
            ELSE taskStatusCache
       /\ reply' = [status |-> 200,
                    body |-> [tracking |->
                                Cardinality({t \in Tasks : taskStatusCache'[t] # Absent})]]
       /\ bcast' = NoMsg
       /\ \A c \in Conns : sent'[c] = <<>>]_vars

\* C20 witness: X was inserted as "unknown", Y with "bidding", and the last
\* request found its id cached: two entries are tracked.
C20_Witness ==
  /\ taskStatusCache = [t \in Tasks |-> IF t = "X" THEN "unknown" ELSE "bidding"]
  /\ cacheOrder = <<"Y", "X">>
  /\ reply = [status |-> 200, body |-> [tracking |-> 2]]

\* ====================================================================
\* Claims about the addressing of the state query
\* ====================================================================
NoOpenClient == \A c \in Conns : rs[c] # OPEN

\* C16: a browser-state request that arrives while no connection is open is
\* replied {error:'no clients'} in the same step, sends nothing, and leaves
\* the pending resolver and the timers as they were.
C16_NoClients ==
  [][\A q \in Queries : (BrowserState(q) /\ NoOpenClient) =>
       /\ qReply'[q] = "no clients"
       /\ \A c \in Conns : sent'[c] = <<>>
       /\ stateResolve' = stateResolve
       /\ qTimer' = qTimer]_vars

\* C16 witness: the first request is pending, the client went away and the
\* second request was replied 'no clients'; the resolver and timer of the
\* first are as they were.
C16_Witness ==
  /\ qReply[1] = "waiting" /\ qReply[2] = "no clients"
  /\ stateResolve = 1
  /\ qTimer[1] = "armed" /\ qTimer[2] = "off"
  /\ NoOpenClient

\* C17: a browser-state request that arrives while a connection is open
\* sends state_request to the first open connection in the iteration order
\* and to no other connection.
C17_OneRecipient ==
  [][\A q \in Queries : (BrowserState(q) /\ ~NoOpenClient) =>
       \E c \in Conns :
         /\ rs[c] = OPEN
         /\ \A d \in Conns : d < c => rs[d] # OPEN
         /\ sent'[c] = <<[type |-> "state_request", tasks |-> <<>>]>>
         /\ \A d \in Conns \ {c} : sent'[d] = <<>>]_vars

\* C17 witness: both connections are open and the request went to the
\* first one alone.
C17_Witness ==
  /\ rs[1] = OPEN /\ rs[2] = OPEN
  /\ sent[1] = <<[type |-> "state_request", tasks |-> <<>>]>>
  /\ sent[2] = <<>>
  /\ qReply[1] = "waiting"

\* C18: a pending state query is completed with a state_response payload
\* only by a message of the connection its state_request was sent to.
C18_CorrelatedResponse ==
  [][\A q \in Queries : (qReply[q] = "waiting" /\ qReply'[q] = "state_response") =>
       inbound' = qTarget[q]]_vars

\* ====================================================================
\* Claims about the agent identity
\* ====================================================================
\* The snapshot of t matches a local wallet address by its poster or its
\* assignee.
WalletTask(t) ==
  \/ taskFields[t].posterAddress \in agentWallets
  \/ taskFields[t].assignedAgent \in agentWallets

\* The directory fetch failed: startup goes on with no resolved id.
FailedStart == phase # "resolving" /\ agentServerIds = {}

\* C21, first part: after a failed directory fetch the resolved-identifier
\* set is empty for good, and startup completes: the callback of
\* server.listen waits for no fetch any more and starts the interval timers
\* of the pollers in its next step.
C21_StartupCompletes ==
  /\ [](FailedStart => (phase = "running" \/ ENABLED ListenFinish))
  /\ [][FailedStart => agentServerIds' = {}]_vars

\* C21: after a failed directory fetch the relay still detects the tasks of
\* its agents in degraded form: with a client connected for good, a task whose
\* poster or assignee matches a local wallet address is eventually recorded
\* in the Task State Cache by the All-Agent-Task Poller.
C21_DegradedDetection ==
  (<>[](rs[1] = OPEN) /\ <>FailedStart)
    => \A t \in Tasks : WalletTask(t) => <>(taskStatusCache[t] # Absent)

\* The ownership of the snapshot of t as the code decides it, field by field.
OursByField(t) ==
  \/ taskFields[t].assignedAgent \in agentServerIds \cup agentWallets
  \/ taskFields[t].agentId \in agentServerIds
  \/ taskFields[t].posterAddress \in agentWallets

\* The ownership of the snapshot of t by its assigned-agent and poster
\* fields alone, each against both sets.
OursAsStated(t) ==
  \/ taskFields[t].assignedAgent \in agentServerIds \cup agentWallets
  \/ taskFields[t].posterAddress \in agentServerIds \cup agentWallets

\* A listing that succeeds records exactly the listed tasks, absent from the
\* cache, that Ours(t) holds for, and leaves the identity set and the
\* snapshots as they are.
RecordsExactly(Ours(_)) ==
  \A k \in AllSlots : AllResume(k, TRUE) =>
    /\ \A t \in Tasks :
         (remote[t] = allStatuses[allCyc[k].idx] /\ taskStatusCache[t] = Absent)
           => ((taskStatusCache'[t] # Absent) <=> Ours(t))
    /\ UNCHANGED <<agentServerIds, taskFields>>

\* C22 as stated: isOurTask is true exactly when the assigned-agent field or
\* the poster field of the snapshot is in the resolved identifier set or in
\* the local wallet set.
C22_OwnershipAsStated == [][RecordsExactly(OursAsStated)]_vars

\* C22: isOurTask is true exactly when the assignedAgent or agentId field is
\* a resolved remote agent identifier, or the posterAddress or assignedAgent
\* field is a local wallet address (either network encoding); it changes
\* neither the snapshot nor the Agent Identity Set.
C22_Ownership == [][RecordsExactly(OursByField)]_vars

\* A task that is ours by its agentId field alone has been recorded.
C22_Witness ==
  /\ taskFields["Y"].agentId \in agentServerIds
  /\ taskFields["Y"].assignedAgent \notin agentServerIds \cup agentWallets
  /\ taskFields["Y"].posterAddress \notin agentServerIds \cup agentWallets
  /\ taskStatusCache["Y"] = "bidding"

\* ====================================================================
\* Claims about the batches of the status pollers
\* ====================================================================
\* One resumption of a status-poller cycle: old is the batch the cycle held,
\* ends tells whether the step ended the cycle, detected whether the step
\* detected a change.  The batch of a running cycle only grows and is not
\* broadcast; the step that ends the cycle broadcasts the whole batch once,
\* to the open connections, or nothing when the batch is empty.  Every cache
\* entry the step changed is in what the step added to the batch.
C23_Batch(old, after, ends, detected) ==
  /\ IsPrefix(old, after)
  /\ (Len(after) > Len(old)) <=> detected
  /\ \A t \in Tasks :
       (taskStatusCache[t] # Absent /\ taskStatusCache'[t] # taskStatusCache[t])
         => Snapshot(t, taskStatusCache'[t]) \in Range(Added(old, after))
  /\ IF ends /\ after # <<>>
     THEN /\ bcast' = [type |-> "task_updates", tasks |-> after]
          /\ sent' = SendToOpen(bcast')
     ELSE bcast' = NoMsg /\ sent' = NothingSent

C23_AllStep(k) ==
  C23_Batch(allCyc[k].updates, AllBatchAfter(k),
            allCyc'[k].pc = "idle" /\ allCyc[k].idx = Len(allStatuses),
            \E t \in Tasks : /\ taskStatusCache[t] # Absent
                              /\ taskStatusCache'[t] # taskStatusCache[t])

C23_WatchedStep(k) ==
  C23_Batch(wCyc[k].updates, WatchedBatchAfter(k),
            wCyc'[k].pc = "idle",
            fetched' = "ok" /\ remote[wCyc[k].taskId] # wCyc[k].lastStatus)

\* C23: a cycle of pollAllAgentTasks or of pollWatchedTasks broadcasts at
\* most once, in the step that processed its last fetch, and the message
\* carries every change the cycle detected; a cycle that detected none
\* broadcasts nothing, and so does a tick that starts a cycle.
C23_OneBatchPerCycle ==
  [][ /\ \A k \in AllSlots :
          /\ AllResumed(k) => C23_AllStep(k)
          /\ AllTick(k) => bcast' = NoMsg
      /\ \A k \in WatchedSlots :
          /\ WatchedResumed(k) => C23_WatchedStep(k)
          /\ WatchedTick(k) => bcast' = NoMsg
      /\ bcast'.type = "task_updates" =>
            \/ \E k \in AllSlots : AllResumed(k) /\ allCyc'[k].pc = "idle"
            \/ \E k \in WatchedSlots : WatchedResumed(k) /\ wCyc'[k].pc = "idle" ]_vars

\* A cycle ended with one message that carries two changes.
C23_Witness ==
  /\ bcast.type = "task_updates"
  /\ Len(bcast.tasks) = 2
  /\ bcast.tasks[1].status # bcast.tasks[2].status

\* ====================================================================
\* Claims about the seen set
\* ====================================================================
\* C24: a task id is in at most one new_tasks broadcast of pollNewTasks,
\* overlapping cycles included: the ids of such a broadcast were not in the
\* Seen-New-Task-Id Set before the step and are all in it after the same
\* step, and no step removes an id from the set.
C24_AnnouncedOnce ==
  [][ /\ seenNewIds \subseteq seenNewIds'
      /\ \A k \in NewSlots, ok \in BOOLEAN :
           (NewResume(k, ok) /\ bcast'.type = "new_tasks") =>
             /\ SeqIds(bcast'.tasks) # {}
             /\ SeqIds(bcast'.tasks) \cap seenNewIds = {}
             /\ SeqIds(bcast'.tasks) \subseteq seenNewIds' ]_vars

\* A cycle broadcast task A as new while an overlapping cycle that fetched A
\* as well is still suspended.
C24_Witness ==
  /\ bcast.type = "new_tasks"
  /\ "A" \in SeqIds(bcast.tasks)
  /\ \E k \in NewSlots : newCyc[k].pc = "wait" /\ "A" \in SeqIds(newCyc[k].tasks)

\* ====================================================================
\* Claims about overlapping cycles
\* ====================================================================
\* Another cycle of the same poller is suspended on a fetch.
OtherAll(k) == \E j \in AllSlots \ {k} : allCyc[j].pc = "wait"
OtherWatched(k) == \E j \in WatchedSlots \ {k} : wCyc[j].pc = "wait"
OtherNew(k) == \E j \in NewSlots \ {k} : newCyc[j].pc = "wait"

\* The interval timer of a poller starts a cycle whatever the cycles in
\* flight do (up to the number of cycles the model follows), when the guards
\* of the first lines of the poller pass.
C25_TickNotBlocked ==
  /\ (phase = "running" /\ \E k \in NewSlots : newCyc[k].pc = "idle")
       => ENABLED (\E k \in NewSlots : NewTick(k))
  /\ (phase = "running" /\ Inflight < MaxInflight /\ AllStartGuard)
       => ENABLED (\E k \in AllSlots : AllTick(k))
  /\ (phase = "running" /\ Inflight < MaxInflight /\ cacheOrder # <<>> /\ clientCount # 0)
       => ENABLED (\E k \in WatchedSlots : WatchedTick(k))

\* The result a cycle resumes with is applied while another cycle of the
\* same poller is in flight: the listed tasks of ours enter the cache with
\* the listed status, a watched task whose status differs from the one the
\* cycle read takes the fetched status, and the fetched open tasks enter the
\* seen set.
C25_LateResultApplied ==
  /\ \A k \in AllSlots : (AllResume(k, TRUE) /\ OtherAll(k)) =>
       \A t \in Tasks : (isOurTask(t) /\ remote[t] = allStatuses[allCyc[k].idx])
                           => taskStatusCache'[t] = remote[t]
  /\ \A k \in WatchedSlots : (WatchedResume(k, TRUE) /\ OtherWatched(k)) =>
       (remote[wCyc[k].taskId] # wCyc[k].lastStatus
          => taskStatusCache'[wCyc[k].taskId] = remote[wCyc[k].taskId])
  /\ \A k \in NewSlots : (NewResume(k, TRUE) /\ OtherNew(k)
                           /\ newCyc[k].idx = Len(TASKS_URLS)) =>
       SeqIds(newCyc[k].tasks) \cup openRemote[newCyc[k].idx] \subseteq seenNewIds'

\* C25: the invocations of one poller exclude each other in no way: a tick
\* starts a cycle while an earlier cycle of the poller is suspended on a
\* fetch, and the result the earlier cycle resumes with later is applied to
\* the cache or to the seen set all the same.
C25_NoMutualExclusion == []C25_TickNotBlocked /\ [][C25_LateResultApplied]_vars

\* Every slot of pollNewTasks and of pollAllAgentTasks holds a cycle in
\* flight, and the cache holds a status the fetches in flight will replace.
C25_Witness ==
  /\ \A k \in NewSlots : newCyc[k].pc = "wait"
  /\ \A k \in AllSlots : allCyc[k].pc = "wait"
  /\ \E t \in Tasks : taskStatusCache[t] # Absent /\ taskStatusCache[t] # remote[t]

\* ====================================================================
\* Claims about the writers of the cache and of the seen set
\* ====================================================================
\* A step of pollNewTasks or of push-task (told apart from the other steps by
\* the type of the message first: the tasks of a new_tasks message and the
\* snapshots of a task_updates message are not comparable).
NewPollerStep ==
  /\ bcast'.type \in {"none", "new_tasks"}
  /\ \E k \in NewSlots : NewTick(k) \/ \E ok \in BOOLEAN : NewResume(k, ok)
PushStep ==
  /\ bcast'.type = "new_tasks"
  /\ \E body \in PushBodies : PushTask(body)
\* A step of a status poller or of watch-task.
StatusPollerStep ==
  /\ bcast'.type \in {"none", "task_updates"}
  /\ \/ \E k \in AllSlots : AllTick(k) \/ \E ok \in BOOLEAN : AllResume(k, ok)
     \/ \E k \in WatchedSlots : WatchedTick(k) \/ \E ok \in BOOLEAN : WatchedResume(k, ok)
WatchStep ==
  /\ bcast'.type = "none"
  /\ \E taskId \in Tasks \cup {Missing}, status \in WatchStatusInputs :
       WatchTask(taskId, status)

\* C26: pollNewTasks and push-task never modify the Task State Cache, and
\* pollAllAgentTasks, pollWatchedTasks, watch-task and push-task never modify
\* the Seen-New-Task-Id Set (nor the first-cycle flag).
C26_DisjointWriters ==
  [][ /\ (NewPollerStep \/ PushStep) => UNCHANGED <<taskStatusCache, cacheOrder>>
      /\ (StatusPollerStep \/ WatchStep \/ PushStep) => UNCHANGED <<seenNewIds, firstFetch>> ]_vars

\* Task B was pushed by hand and is not marked as seen, while the new-task
\* poller has seen A and watch-task has put Y into the cache.
C26_Witness ==
  /\ bcast.type = "new_tasks"
  /\ bcast.tasks = <<"A", "B">>
  /\ seenNewIds = {"A"}
  /\ taskStatusCache["Y"] # Absent
  /\ taskStatusCache["X"] = "assigned"

\* ====================================================================
\* Claims about the inbound messages
\* ====================================================================
\* The state of the relay but the pending query: connections, caches, maps,
\* pollers, timers and the reply of the last control request.
C27_Rest == <<rs, pollVars, newVars, ctlVars, qTimer, crashed, taskFields>>

\* C27: a client message changes the state of the relay only when its type
\* is state_response and a query is pending: it then clears the pending
\* resolver and answers that query, which had no answer yet, and nothing
\* else.  Any other message (unparsable, of another type, or a
\* state_response with no query pending) changes nothing and answers
\* nothing.  No message triggers a broadcast or a send.
C27_OnlyStateResponse ==
  [][ \A c \in Conns, type \in MessageTypes : ClientMessage(c, type) =>
        /\ IF type = "state_response" /\ stateResolve # 0
           THEN /\ stateResolve' = 0
                /\ qReply[stateResolve] = "waiting"
                /\ qReply' = [qReply EXCEPT ![stateResolve] = "state_response"]
           ELSE UNCHANGED <<stateResolve, qReply>>
        /\ UNCHANGED C27_Rest
        /\ bcast' = NoMsg
        /\ sent' = NothingSent ]_vars

\* The connection that was asked has answered query 1 before its timer.
C27_Witness ==
  /\ qReply[1] = "state_response"
  /\ stateResolve = 0
  /\ qTimer[1] = "armed"
  /\ inbound = qTarget[1]

\* ====================================================================
\* Claims about the lifetime of the cache entries
\* ====================================================================
\* C28: no step removes an entry from the Task State Cache or moves a key:
\* an id that is in the cache stays in it, terminal or not, and the key
\* order only grows at its end; so pollAllAgentTasks never again inserts the
\* id silently: when one of its steps changes the status of an entry, the
\* snapshot joins the batch of the cycle (CHANGED).
C28_EntriesRetained ==
  [][ /\ \A t \in Tasks : taskStatusCache[t] # Absent => taskStatusCache'[t] # Absent
      /\ IsPrefix(cacheOrder, cacheOrder')
      /\ Range(cacheOrder') = {t \in Tasks : taskStatusCache'[t] # Absent}
      /\ \A k \in AllSlots : AllResumed(k) =>
           \A t \in Tasks :
             (taskStatusCache[t] # Absent /\ taskStatusCache'[t] # taskStatusCache[t])
               => Snapshot(t, taskStatusCache'[t])
                    \in Range(Added(allCyc[k].updates, AllBatchAfter(k))) ]_vars

\* X is in the cache with a terminal status and a cycle of pollWatchedTasks
\* has passed over it and fetches Y.
C28_Witness ==
  /\ taskStatusCache["X"] = "completed"
  /\ cacheOrder = <<"X", "Y">>
  /\ \E k \in WatchedSlots :
       wCyc[k].pc = "wait" /\ wCyc[k].skipped /\ wCyc[k].taskId = "Y"

Quiet(s) ==
  /\ clientCount = 0
  /\ Inflight = 0
  /\ remote["X"] = s
  /\ taskStatusCache["X"] \notin {s, Absent} \cup TerminalStatuses

\* The last step broadcast a task_updates that carries X with status s to
\* connection 1.
ReportedTo1(s) ==
  /\ bcast.type = "task_updates"
  /\ sent[1] = <<bcast>>
  /\ lastSent["X"] = s

FinalReplies == {"no clients", "state_response", "timeout"}

\* C30: a /api/browser-state request is replied to at most once, and the
\* timer of request q acts on q alone: it clears the pending resolver only
\* when the resolver is that of q, and writes no second reply to a response
\* that was answered with a state_response.
C30_TimerActsOnOwnQuery ==
  [][ /\ \A q \in Queries : qReply[q] \in FinalReplies => qReply'[q] = qReply[q]
      /\ \A q \in Queries : TimerFire(q) =>
           /\ (stateResolve # q => stateResolve' = stateResolve)
           /\ (qReply[q] = "state_response" => ~crashed') ]_vars

\* ====================================================================
\* Claims about terminal statuses
\* ====================================================================
\* C31: once the Task State Cache holds a terminal status for a task, no
\* later step of a poller replaces it with a different status, a cycle that
\* resumes with an older snapshot of the task included.
C31_TerminalNeverReplaced ==
  [][\A t \in Tasks : taskStatusCache[t] \in TerminalStatuses
                          => taskStatusCache'[t] = taskStatusCache[t]]_vars

\* ====================================================================
\* Claims about the merged listings
\* ====================================================================
\* C32: a new_tasks message of pollNewTasks carries no task id twice, also
\* when more than one of the per-network listings merged in the cycle
\* returned the task.
C32_NoDuplicateInBatch ==
  bcast.type = "new_tasks" => \A t \in OpenTasks : Count(t, bcast.tasks) <= 1

====
